---- MODULE Spec2Model ----
(***************************************************************************)
(* Model of the data-size / data-speed engine of real-go (package data):   *)
(* ParseSize, Size.bestUnit, Size.FormatUnitString, Size.Format,           *)
(* Size.String, NewSpeedE, ParseSpeed and the Speed formatters.            *)
(*                                                                         *)
(* Go's int64 / uint64 / math/big values do not fit the model checker's    *)
(* native integers, so an integer is a record [neg, mag] whose magnitude   *)
(* is a little-endian sequence of limbs in radix 10^4 without high zeros. The *)
(* Z* operators are exact integer arithmetic on that representation;       *)
(* WrapInt64 gives the two's complement wrap of Go's fixed-width types.    *)
(* Texts are strings; a character is a string of length one.               *)
(***************************************************************************)
EXTENDS Integers, Sequences, FiniteSets, TLC

VARIABLES pc, call, ret

vars == <<pc, call, ret>>

-----------------------------------------------------------------------------
(* Exact integer arithmetic (the arithmetic of Go's integer operators). *)

Radix == 10000

Limb(m, i) == IF i >= 1 /\ i <= Len(m) THEN m[i] ELSE 0

RECURSIVE MagTrimAt(_, _)
MagTrimAt(m, i) ==
    IF i = 0 THEN <<>>
    ELSE IF m[i] # 0 THEN SubSeq(m, 1, i)
    ELSE MagTrimAt(m, i - 1)

MagTrim(m) == MagTrimAt(m, Len(m))

RECURSIVE MagCmpAt(_, _, _)
MagCmpAt(a, b, i) ==
    IF i = 0 THEN 0
    ELSE IF a[i] < b[i] THEN -1
    ELSE IF a[i] > b[i] THEN 1
    ELSE MagCmpAt(a, b, i - 1)

MagCmp(a, b) ==
    IF Len(a) < Len(b) THEN -1
    ELSE IF Len(a) > Len(b) THEN 1
    ELSE MagCmpAt(a, b, Len(a))

\* carry (or borrow) propagation over column values, from column i on
RECURSIVE MagCarry(_, _, _)
MagCarry(cols, i, c) ==
    IF i > Len(cols) THEN <<>>
    ELSE <<(cols[i] + c) % Radix>> \o MagCarry(cols, i + 1, (cols[i] + c) \div Radix)

MagMax(a, b) == IF a >= b THEN a ELSE b

MagMin(a, b) == IF a <= b THEN a ELSE b

MagAdd(a, b) ==
    MagTrim(MagCarry([k \in 1..(MagMax(Len(a), Len(b)) + 1) |->
                         Limb(a, k) + Limb(b, k)], 1, 0))

\* a - b for a >= b
MagSub(a, b) ==
    MagTrim(MagCarry([k \in 1..Len(a) |-> a[k] - Limb(b, k)], 1, 0))

RECURSIVE MagColSum(_, _, _, _)
MagColSum(a, b, k, i) ==
    IF i > Len(a) THEN 0
    ELSE a[i] * Limb(b, k - i + 1) + MagColSum(a, b, k, i + 1)

MagMul(a, b) ==
    IF a = <<>> \/ b = <<>> THEN <<>>
    ELSE MagTrim(MagCarry([k \in 1..(Len(a) + Len(b)) |-> MagColSum(a, b, k, 1)], 1, 0))

\* the largest k <= q with k * b <= r  (q is no less than the quotient limb)
RECURSIVE MagQuoFix(_, _, _)
MagQuoFix(r, b, q) ==
    IF q = 0 \/ MagCmp(MagMul(b, <<q>>), r) <= 0 THEN q ELSE MagQuoFix(r, b, q - 1)

\* the quotient limb of r by b (r < Radix * b): 0 when r < b, else estimated
\* from the leading limbs, which never underestimates, then lowered to fit
MagQuoLimb(r, b) ==
    IF MagCmp(r, b) < 0 THEN 0
    ELSE MagQuoFix(r, b, MagMin(Radix - 1,
                                (Limb(r, Len(b) + 1) * Radix + Limb(r, Len(b)))
                                    \div b[Len(b)]))

\* long division of the limbs i, i-1, ..., 1 of a by b; rem is the running
\* remainder and q the quotient limbs found so far
RECURSIVE MagDivFrom(_, _, _, _, _)
RECURSIVE MagDivTake(_, _, _, _, _, _)
MagDivFrom(a, b, i, rem, q) ==
    IF i = 0 THEN [q |-> MagTrim(q), r |-> rem]
    ELSE MagDivTake(a, b, i, MagTrim(<<a[i]>> \o rem), q,
                    MagQuoLimb(MagTrim(<<a[i]>> \o rem), b))

\* cur is the running remainder with the next limb of a brought down, k the
\* quotient limb of cur by b
MagDivTake(a, b, i, cur, q, k) ==
    IF k = 0 THEN MagDivFrom(a, b, i - 1, cur, <<0>> \o q)
    ELSE MagDivFrom(a, b, i - 1, MagSub(cur, MagMul(b, <<k>>)), <<k>> \o q)

\* a divided by a single limb f, 1 <= f < Radix: the quotient
RECURSIVE MagShortDiv(_, _, _, _)
MagShortDiv(a, f, i, rem) ==
    IF i = 0 THEN <<>>
    ELSE MagShortDiv(a, f, i - 1, (rem * Radix + a[i]) % f)
         \o <<(rem * Radix + a[i]) \div f>>

\* the result of dividing operands that were scaled by f: the remainder is
\* scaled back
MagUnscale(d, f) == [q |-> d.q, r |-> MagTrim(MagShortDiv(d.r, f, Len(d.r), 0))]

MagDivScaled(a, b, f) == MagUnscale(MagDivFrom(a, b, Len(a), <<>>, <<>>), f)

MagDivBy(a, b, f) == MagDivScaled(MagMul(a, <<f>>), MagMul(b, <<f>>), f)

\* quotient and remainder for b # <<>>; both operands are first scaled so
\* that the divisor's leading limb is large and the estimates are close
MagDivMod(a, b) ==
    IF MagCmp(a, b) < 0 THEN [q |-> <<>>, r |-> a]
    ELSE MagDivBy(a, b, Radix \div (b[Len(b)] + 1))

RECURSIVE MagOf(_)
MagOf(n) == IF n = 0 THEN <<>> ELSE <<n % Radix>> \o MagOf(n \div Radix)

Z(neg, mag) == [neg |-> neg /\ mag # <<>>, mag |-> mag]

ZOf(n) == Z(n < 0, MagOf(IF n < 0 THEN 0 - n ELSE n))

ZZero == [neg |-> FALSE, mag |-> <<>>]

ZAbs(a) == [neg |-> FALSE, mag |-> a.mag]

ZNeg(a) == Z(~a.neg, a.mag)

ZAdd(a, b) ==
    IF a.neg = b.neg THEN Z(a.neg, MagAdd(a.mag, b.mag))
    ELSE IF MagCmp(a.mag, b.mag) >= 0 THEN Z(a.neg, MagSub(a.mag, b.mag))
    ELSE Z(b.neg, MagSub(b.mag, a.mag))

ZSub(a, b) == ZAdd(a, ZNeg(b))

ZMul(a, b) == Z(a.neg # b.neg, MagMul(a.mag, b.mag))

\* Go's / and % on integers: the quotient truncates toward zero and the
\* remainder takes the sign of the dividend.
ZQuo(a, b) == Z(a.neg # b.neg, MagDivMod(a.mag, b.mag).q)

ZRem(a, b) == Z(a.neg, MagDivMod(a.mag, b.mag).r)

\* a / n for a native n, 1 <= n < Radix
ZQuoInt(a, n) == Z(a.neg, MagTrim(MagShortDiv(a.mag, n, Len(a.mag), 0)))

ZCmp(a, b) ==
    IF a.neg # b.neg THEN (IF a.neg THEN -1 ELSE 1)
    ELSE IF a.neg THEN MagCmp(b.mag, a.mag)
    ELSE MagCmp(a.mag, b.mag)

ZLt(a, b) == ZCmp(a, b) < 0

ZLe(a, b) == ZCmp(a, b) <= 0

ZGt(a, b) == ZCmp(a, b) > 0

ZGe(a, b) == ZCmp(a, b) >= 0

\* r or r + m, whichever is not negative
ZModFix(r, m) == IF r.neg THEN ZAdd(r, m) ELSE r

\* floor modulus for a positive modulus m
ZMod(a, m) == ZModFix(ZRem(a, m), m)

ZSquare(h) == ZMul(h, h)

\* b^e from sq = (b^(e \div 2))^2
ZPowStep(b, e, sq) == IF e % 2 = 0 THEN sq ELSE ZMul(b, sq)

RECURSIVE ZPow(_, _)
ZPow(b, e) == IF e = 0 THEN ZOf(1) ELSE ZPowStep(b, e, ZSquare(ZPow(b, e \div 2)))

Pow2Table == [k \in 0..191 |-> ZPow(ZOf(2), k)]

Pow2(k) == Pow2Table[k]

-----------------------------------------------------------------------------
(* Fixed-width integers. *)

MaxInt64 == ZSub(Pow2(63), ZOf(1))

MinInt64 == ZNeg(Pow2(63))

InInt64(z) == ZLe(MinInt64, z) /\ ZLe(z, MaxInt64)

\* the value an int64 holds after an operation whose exact result is z
WrapInt64(z) ==
    IF InInt64(z) THEN z
    ELSE ZAdd(ZMod(ZSub(z, MinInt64), Pow2(64)), MinInt64)

-----------------------------------------------------------------------------
(* Characters and texts. *)

Char(s, i) == SubSeq(s, i, i)

DigitChars == <<"0", "1", "2", "3", "4", "5", "6", "7", "8", "9">>

LowerChars == <<"a", "b", "c", "d", "e", "f", "g", "h", "i", "j", "k", "l", "m",
                "n", "o", "p", "q", "r", "s", "t", "u", "v", "w", "x", "y", "z">>

UpperChars == <<"A", "B", "C", "D", "E", "F", "G", "H", "I", "J", "K", "L", "M",
                "N", "O", "P", "Q", "R", "S", "T", "U", "V", "W", "X", "Y", "Z">>

IsDigit(c) == \E i \in DOMAIN DigitChars : DigitChars[i] = c

IsLower(c) == \E i \in DOMAIN LowerChars : LowerChars[i] = c

IsSpace(c) == c \in {" ", "\t", "\n", "\r"}

ToUpper(c) ==
    IF IsLower(c)
    THEN UpperChars[CHOOSE i \in DOMAIN LowerChars : LowerChars[i] = c]
    ELSE c

DigitVal(c) == (CHOOSE i \in DOMAIN DigitChars : DigitChars[i] = c) - 1

\* strings.TrimSpace
RECURSIVE TrimLeft(_)
TrimLeft(s) ==
    IF Len(s) > 0 /\ IsSpace(Char(s, 1)) THEN TrimLeft(SubSeq(s, 2, Len(s))) ELSE s

RECURSIVE TrimRight(_)
TrimRight(s) ==
    IF Len(s) > 0 /\ IsSpace(Char(s, Len(s)))
    THEN TrimRight(SubSeq(s, 1, Len(s) - 1))
    ELSE s

TrimSpace(s) == TrimRight(TrimLeft(s))

\* strings.LastIndexFunc: the 0-based index of the last character satisfying
\* f, or -1
LastIndexFunc(s, f(_)) ==
    LET hits == {i \in 1..Len(s) : f(Char(s, i))}
    IN  IF hits = {} THEN -1
        ELSE (CHOOSE i \in hits : \A j \in hits : j <= i) - 1

\* strings.Map
RECURSIVE MapText(_, _)
MapText(f(_), s) ==
    IF Len(s) = 0 THEN s ELSE f(Char(s, 1)) \o MapText(f, SubSeq(s, 2, Len(s)))

\* all(s, f)
all(s, f(_)) == \A i \in 1..Len(s) : f(Char(s, i))

DigitChar(d) == DigitChars[d + 1]

\* the decimal text of a limb: plain, and zero-padded to four digits
LimbText4(n) ==
    DigitChar(n \div 1000) \o DigitChar((n \div 100) % 10)
    \o DigitChar((n \div 10) % 10) \o DigitChar(n % 10)

LimbText(n) ==
    IF n >= 1000 THEN LimbText4(n)
    ELSE IF n >= 100 THEN SubSeq(LimbText4(n), 2, 4)
    ELSE IF n >= 10 THEN SubSeq(LimbText4(n), 3, 4)
    ELSE DigitChar(n)

RECURSIVE MagText(_, _)
MagText(m, i) ==
    IF i = 0 THEN "" ELSE LimbText4(m[i]) \o MagText(m, i - 1)

\* the %d rendering of an integer (also big.Int's String)
FormatInt(z) ==
    IF z.mag = <<>> THEN "0"
    ELSE (IF z.neg THEN "-" ELSE "")
         \o LimbText(z.mag[Len(z.mag)]) \o MagText(z.mag, Len(z.mag) - 1)

\* the value of a text of decimal digits
DigitAt(s, p) == IF p >= 1 THEN DigitVal(Char(s, p)) ELSE 0

DigitsMag(s) ==
    MagTrim([k \in 1..((Len(s) + 3) \div 4) |->
                LET e == Len(s) - 4 * (k - 1)
                IN  DigitAt(s, e - 3) * 1000 + DigitAt(s, e - 2) * 100
                    + DigitAt(s, e - 1) * 10 + DigitAt(s, e)])

\* strconv.ParseInt(s, 10, 64): an optional sign, then decimal digits only;
\* a value outside the int64 range is a range error
ParseInt(s) ==
    LET signed == Len(s) > 0 /\ Char(s, 1) \in {"+", "-"}
        neg    == Len(s) > 0 /\ Char(s, 1) = "-"
        body   == IF signed THEN SubSeq(s, 2, Len(s)) ELSE s
    IN  IF Len(body) = 0 \/ ~all(body, IsDigit)
        THEN [val |-> ZZero, err |-> "invalid syntax"]
        ELSE LET v == Z(neg, DigitsMag(body))
             IN  IF InInt64(v) THEN [val |-> v, err |-> ""]
                 ELSE [val |-> (IF neg THEN MinInt64 ELSE MaxInt64),
                       err |-> "value out of range"]

-----------------------------------------------------------------------------
(* Units: src/data/size.go. *)

Byte == ZOf(1)

KB == ZMul(ZOf(1000), Byte)
MB == ZMul(ZOf(1000), KB)
GB == ZMul(ZOf(1000), MB)
TB == ZMul(ZOf(1000), GB)
PB == ZMul(ZOf(1000), TB)
EB == ZMul(ZOf(1000), PB)

KiB == ZMul(ZOf(1024), Byte)
MiB == ZMul(ZOf(1024), KiB)
GiB == ZMul(ZOf(1024), MiB)
TiB == ZMul(ZOf(1024), GiB)
PiB == ZMul(ZOf(1024), TiB)
EiB == ZMul(ZOf(1024), PiB)

Kb == ZQuoInt(KB, 8)
Mb == ZQuoInt(MB, 8)
Gb == ZQuoInt(GB, 8)
Tb == ZQuoInt(TB, 8)
Pb == ZQuoInt(PB, 8)
Eb == ZQuoInt(EB, 8)

Kib == ZQuoInt(KiB, 8)
Mib == ZQuoInt(MiB, 8)
Gib == ZQuoInt(GiB, 8)
Tib == ZQuoInt(TiB, 8)
Pib == ZQuoInt(PiB, 8)

UnitTable ==
    ("B" :> Byte)
    @@ ("kB" :> KB) @@ ("KB" :> KB) @@ ("MB" :> MB) @@ ("GB" :> GB)
    @@ ("TB" :> TB) @@ ("PB" :> PB) @@ ("EB" :> EB)
    @@ ("kiB" :> KiB) @@ ("KiB" :> KiB) @@ ("MiB" :> MiB) @@ ("GiB" :> GiB)
    @@ ("TiB" :> TiB) @@ ("PiB" :> PiB) @@ ("EiB" :> EiB)
    @@ ("kb" :> Kb) @@ ("Kb" :> Kb) @@ ("Mb" :> Mb) @@ ("Gb" :> Gb)
    @@ ("Tb" :> Tb) @@ ("Pb" :> Pb) @@ ("Eb" :> Eb)
    @@ ("kib" :> Kib) @@ ("Kib" :> Kib) @@ ("Mib" :> Mib) @@ ("Gib" :> Gib)
    @@ ("Tib" :> Tib) @@ ("Pib" :> Pib)

\* Go's two-value map index  v, ok := m[key]
MapIndex(m, key) ==
    IF key \in DOMAIN m THEN [ok |-> TRUE, val |-> m[key]]
    ELSE [ok |-> FALSE, val |-> ZZero]

-----------------------------------------------------------------------------
(* ParseSize: src/data/size.go. *)

\* the case mapping applied to a unit written all in lower case
UpperExceptI(r) == IF r = "i" THEN r ELSE ToUpper(r)

\* a variant that upper-cases the binary-prefix marker as well
NormalizeUnit_UpperAll(unit) ==
    IF all(unit, IsLower) THEN MapText(ToUpper, unit) ELSE unit

NormalizeUnit(unit) ==
    IF all(unit, IsLower) THEN MapText(UpperExceptI, unit) ELSE unit

\* a variant whose lower limit mirrors the upper one
SizeOverflows_Magnitude(size, mul) ==
    \/ ZGt(size, ZZero) /\ ZGt(size, ZQuo(MaxInt64, mul))
    \/ ZLt(size, ZZero) /\ ZLt(size, ZNeg(ZQuo(MaxInt64, mul)))

\* the overflow guard in front of the multiplication
SizeOverflows(size, mul) ==
    \/ ZGt(size, ZZero) /\ ZGt(size, ZQuo(MaxInt64, mul))
    \/ ZLt(size, ZZero) /\ ZLt(size, ZQuo(MinInt64, mul))

\* the part of ParseSize after the split: parsed is what strconv.ParseInt
\* returned for the numeral, mul what the table holds for the unit
ParseSizeOf(parsed, mul) ==
    IF parsed.err # "" THEN [val |-> ZZero, err |-> parsed.err]
    ELSE IF ~mul.ok THEN [val |-> ZZero, err |-> "invalid input unit"]
    ELSE IF SizeOverflows(parsed.val, mul.val)
    THEN [val |-> ZZero, err |-> "size overflows int64"]
    ELSE [val |-> WrapInt64(ZMul(parsed.val, mul.val)), err |-> ""]

ParseSize(s) ==
    LET trimmed   == TrimSpace(s)
        numEnd    == LastIndexFunc(trimmed, IsDigit) + 1
        num       == SubSeq(trimmed, 1, numEnd)
        inputUnit == SubSeq(trimmed, numEnd + 1, Len(trimmed))
        trimUnit  == TrimSpace(inputUnit)
        unit      == NormalizeUnit(IF trimUnit = "" THEN "B" ELSE trimUnit)
    IN  IF numEnd <= 0 THEN [val |-> ZZero, err |-> "invalid size format"]
        ELSE ParseSizeOf(ParseInt(num), MapIndex(UnitTable, unit))

-----------------------------------------------------------------------------
(* bestUnit: src/data/size.go, src/internal/slices/slices.go. *)

FormatBinaryByte == 0
FormatMetricByte == 1
FormatBinaryBit == 2
FormatMetricBit == 3

pair(name, value) == [name |-> name, value |-> value]

metricBytes ==
    <<pair("B", Byte), pair("kB", KB), pair("MB", MB), pair("GB", GB),
      pair("TB", TB), pair("PB", PB), pair("EB", EB)>>

metricBits ==
    <<pair("b", ZZero), pair("kb", Kb), pair("Mb", Mb), pair("Gb", Gb),
      pair("Tb", Tb), pair("Pb", Pb), pair("Eb", Eb)>>

\* a variant that names the kibibyte step with a spelling the table lacks
binaryBytes_Unlisted ==
    <<pair("B", Byte), pair("kIB", KiB), pair("MiB", MiB), pair("GiB", GiB),
      pair("TiB", TiB), pair("PiB", PiB), pair("EiB", EiB)>>

binaryBytes ==
    <<pair("B", Byte), pair("kiB", KiB), pair("MiB", MiB), pair("GiB", GiB),
      pair("TiB", TiB), pair("PiB", PiB), pair("EiB", EiB)>>

binaryBits ==
    <<pair("b", ZZero), pair("kib", Kib), pair("Mib", Mib), pair("Gib", Gib),
      pair("Tib", Tib), pair("Pib", Pib)>>

\* the loop of LastItemFunc: idx is the last index before the first item
\* that fails f
RECURSIVE LastItemLoop(_, _, _, _)
LastItemLoop(s, f(_), i, idx) ==
    IF i > Len(s) \/ ~f(s[i]) THEN idx ELSE LastItemLoop(s, f, i + 1, i)

LastItemFunc(s, f(_)) ==
    IF Len(s) = 0 THEN pair("", ZZero) ELSE s[LastItemLoop(s, f, 1, 1)]

\* the values of FormatUnit that bestUnit's switch knows
Families == {FormatBinaryByte, FormatMetricByte, FormatBinaryBit, FormatMetricBit}

\* the unit list of a family
UnitList(u) ==
    IF u = FormatBinaryByte THEN binaryBytes
    ELSE IF u = FormatMetricByte THEN metricBytes
    ELSE IF u = FormatBinaryBit THEN binaryBits
    ELSE IF u = FormatMetricBit THEN metricBits
    ELSE <<>>

\* a variant whose threshold test is strict
bestUnit_Strict(d, u) ==
    IF u \notin Families THEN [name |-> "", panic |-> "invalid unit kind"]
    ELSE [name  |-> LastItemFunc(UnitList(u), LAMBDA a : ZLt(a.value, d)).name,
          panic |-> ""]

\* a variant whose threshold test is reversed
bestUnit_Reversed(d, u) ==
    IF u \notin Families THEN [name |-> "", panic |-> "invalid unit kind"]
    ELSE [name  |-> LastItemFunc(UnitList(u), LAMBDA a : ZLe(d, a.value)).name,
          panic |-> ""]

bestUnit(d, u) ==
    IF u \notin Families THEN [name |-> "", panic |-> "invalid unit kind"]
    ELSE [name  |-> LastItemFunc(UnitList(u), LAMBDA a : ZLe(a.value, d)).name,
          panic |-> ""]

-----------------------------------------------------------------------------
(* NewSpeedE, ParseSpeed: src/data/speed.go. *)

Nanosecond == ZOf(1)
Microsecond == ZMul(ZOf(1000), Nanosecond)
Millisecond == ZMul(ZOf(1000), Microsecond)
Second == ZMul(ZOf(1000), Millisecond)
Minute == ZMul(ZOf(60), Second)
Hour == ZMul(ZOf(60), Minute)

\* a variant without the overflow guard
NewSpeedE_NoGuard(amount, dur) ==
    IF ZLt(dur, ZZero) THEN [val |-> ZZero, err |-> "negative duration"]
    ELSE IF dur = ZZero THEN [val |-> ZZero, err |-> ""]
    ELSE IF ZLt(amount, ZZero) THEN [val |-> ZZero, err |-> "negative amount"]
    ELSE [val |-> ZQuo(WrapInt64(ZMul(amount, Second)), dur), err |-> ""]

NewSpeedE(amount, dur) ==
    IF ZLt(dur, ZZero) THEN [val |-> ZZero, err |-> "negative duration"]
    ELSE IF dur = ZZero THEN [val |-> ZZero, err |-> ""]
    ELSE IF ZLt(amount, ZZero) THEN [val |-> ZZero, err |-> "negative amount"]
    ELSE IF ZGt(amount, ZQuo(MaxInt64, Second))
    THEN [val |-> ZZero, err |-> "speed overflows int64"]
    ELSE [val |-> ZQuo(WrapInt64(ZMul(amount, Second)), dur), err |-> ""]

timeTable ==
    ("ns" :> Nanosecond) @@ ("µs" :> Nanosecond) @@ ("ms" :> Millisecond)
    @@ ("s" :> Second) @@ ("m" :> Minute) @@ ("h" :> Hour)

\* strings.LastIndexAny: the 0-based index of the last character of s that
\* occurs in chars, or -1
LastIndexAny(s, chars) ==
    LastIndexFunc(s, LAMBDA c : \E i \in 1..Len(chars) : Char(chars, i) = c)

\* the part of ParseSpeed after the duration lookup: size is what ParseSize
\* returned
ParseSpeedOf(size, dur) ==
    IF size.err # "" THEN [val |-> ZZero, err |-> "invalid size for dataspeed"]
    ELSE NewSpeedE(size.val, dur)

ParseSpeed(s) ==
    LET trimmed  == TrimSpace(s)
        perIndex == LastIndexAny(trimmed, "p/")
        sizeStr  == SubSeq(trimmed, 1, perIndex)
        durStr   == TrimSpace(SubSeq(trimmed, perIndex + 2, Len(trimmed)))
    IN  IF perIndex < 0 THEN [val |-> ZZero, err |-> "invalid dataspeed format"]
        ELSE IF durStr \notin DOMAIN timeTable
        THEN [val |-> ZZero, err |-> "invalid duration for dataspeed"]
        ELSE ParseSpeedOf(ParseSize(sizeStr), timeTable[durStr])

-----------------------------------------------------------------------------
(* float64: a value is held as the exact number it denotes.  Conversions    *)
(* and operations round to nearest, ties to even, to a significand of 53    *)
(* bits, as the hardware does; the values met here are far from the         *)
(* subnormal and the overflow range.                                        *)

\* the largest k in lo..hi with 2^k <= z  (2^lo <= z)
RECURSIVE Log2Search(_, _, _)
Log2Search(z, lo, hi) ==
    IF lo = hi THEN lo
    ELSE IF ZLe(Pow2((lo + hi + 1) \div 2), z)
    THEN Log2Search(z, (lo + hi + 1) \div 2, hi)
    ELSE Log2Search(z, lo, ((lo + hi + 1) \div 2) - 1)

\* floor(log2(z)) for 1 <= z < 2^160
Log2(z) == Log2Search(z, 0, 159)

\* z * 2^k for k > 0, z otherwise
ZShift(z, k) == IF k > 0 THEN ZMul(z, Pow2(k)) ELSE z

\* the quotient dm.q of a division by d with remainder dm.r, rounded to the
\* nearest integer, ties to even
MagRound(dm, d, half) ==
    IF half > 0 \/ (half = 0 /\ dm.q # <<>> /\ dm.q[1] % 2 = 1)
    THEN MagAdd(dm.q, <<1>>)
    ELSE dm.q

MagNearest(dm, d) == MagRound(dm, d, MagCmp(MagAdd(dm.r, dm.r), d))

\* n / d rounded to the nearest integer, ties to even  (n >= 0, d > 0)
RoundHalfEven(n, d) == Z(FALSE, MagNearest(MagDivMod(n.mag, d.mag), d.mag))

\* a float64 is the number it holds, (-1)^neg * num / den with den a power
\* of two, or NaN
F64Zero(neg) == [nan |-> FALSE, neg |-> neg, num |-> ZZero, den |-> ZOf(1)]

F64NaN == [nan |-> TRUE, neg |-> FALSE, num |-> ZZero, den |-> ZOf(1)]

\* the float64 with significand m and exponent e
F64Make(neg, m, e) ==
    [nan |-> FALSE, neg |-> neg, num |-> ZShift(m, e), den |-> Pow2(MagMax(0, 0 - e))]

\* floor(log2(n / d)), given that it is l or l - 1
F64Floor(n, d, l) == IF ZLe(ZShift(d, l), ZShift(n, 0 - l)) THEN l ELSE l - 1

\* n / d rounded to a significand of 53 bits with exponent e
F64RoundAt(neg, n, d, e) ==
    F64Make(neg, RoundHalfEven(ZShift(n, 0 - e), ZShift(d, e)), e)

\* the float64 nearest to (-1)^neg * n / d  (n >= 0, d > 0), ties to even
F64Round(neg, n, d) ==
    IF n.mag = <<>> THEN F64Zero(neg)
    ELSE F64RoundAt(neg, n, d, F64Floor(n, d, Log2(n) - Log2(d)) - 52)

\* float64(z) for an integer z; a magnitude of three limbs is below 2^53
\* and converts exactly
F64FromInt(z) ==
    IF Len(z.mag) <= 3 THEN [nan |-> FALSE, neg |-> z.neg, num |-> ZAbs(z), den |-> ZOf(1)]
    ELSE F64Round(z.neg, ZAbs(z), ZOf(1))

\* x / y for y # 0
F64Div(x, y) ==
    IF x.nan \/ y.nan THEN F64NaN
    ELSE F64Round(x.neg # y.neg, ZMul(x.num, y.den), ZMul(x.den, y.num))

\* the float64 nearest to the exact sum
F64Sum(sum, den, negZero) ==
    IF sum.mag = <<>> THEN F64Zero(negZero) ELSE F64Round(sum.neg, ZAbs(sum), den)

\* x + y
F64Add(x, y) ==
    IF x.nan \/ y.nan THEN F64NaN
    ELSE F64Sum(ZAdd(Z(x.neg, ZMul(x.num, y.den).mag), Z(y.neg, ZMul(y.num, x.den).mag)),
                ZMul(x.den, y.den), x.neg /\ y.neg)

RECURSIVE Zeros(_)
Zeros(n) == IF n <= 0 THEN "" ELSE "0" \o Zeros(n - 1)

\* the digits after the point, padded with zeros on the left to prec places
FormatFrac(frac, prec) == Zeros(prec - Len(frac)) \o frac

\* dm.q is the value scaled by 10^prec, dm.r its last prec digits
FormatFixed(neg, dm, prec) ==
    (IF neg THEN "-" ELSE "") \o FormatInt(Z(FALSE, dm.q))
    \o (IF prec = 0 THEN "" ELSE "." \o FormatFrac(FormatInt(Z(FALSE, dm.r)), prec))

FormatScaled(neg, num, den, scale, prec) ==
    FormatFixed(neg, MagDivMod(RoundHalfEven(ZMul(num, scale), den).mag, scale.mag), prec)

\* the %.<prec>f rendering of a float64: the exact value rounded to prec
\* fractional digits, ties to even
FormatFloat(x, prec) ==
    IF x.nan THEN "NaN"
    ELSE FormatScaled(x.neg, x.num, x.den, ZPow(ZOf(10), prec), prec)

-----------------------------------------------------------------------------
(* Formatting a Size: src/data/size.go. *)

\* Size.quotient
quotient(d, u) ==
    IF u = ZZero THEN F64NaN
    ELSE F64Add(F64FromInt(ZQuo(d, u)), F64Div(F64FromInt(ZRem(d, u)), F64FromInt(u)))

\* slices.OptionalValue
OptionalValue(d, s) == IF Len(s) # 0 THEN s[1] ELSE d

Text(t) == [text |-> t, panic |-> ""]

Panic(msg) == [text |-> "", panic |-> msg]

\* the %d (or big.Int) rendering of a whole number followed by the unit,
\* with a fractional part of zeros when prec is not 0
FormatWhole(num, unit, prec) ==
    IF prec = 0 THEN Text(num \o " " \o unit)
    ELSE Text(num \o "." \o Zeros(prec) \o " " \o unit)

\* the part of FormatUnitString after the byte and bit cases: u is what
\* the table holds for the unit
FormatScale(d, unit, prec, u) ==
    IF ~u.ok THEN Panic("illegal diskspace unit")
    ELSE Text(FormatFloat(quotient(d, u.val), prec) \o " " \o unit)

\* Size.FormatUnitString; precision is the variadic argument, <<>> or <<p>>
FormatUnitString(d, unit, precision) ==
    LET prec == OptionalValue(0, precision)
    IN  IF d = ZZero THEN Text("0 " \o unit)
        ELSE IF unit = "B" \/ unit = "b"
        THEN FormatWhole(FormatInt(IF unit = "B" THEN d ELSE ZMul(d, ZOf(8))), unit, prec)
        ELSE FormatScale(d, unit, prec, MapIndex(UnitTable, unit))

\* Size.String, once bestUnit has chosen the unit
StringIn(d, unit) ==
    FormatUnitString(d, unit, IF unit \in {"b", "B"} THEN <<>> ELSE <<2>>)

String_Metric(d) == StringIn(d, bestUnit(d, FormatMetricByte).name)

\* Size.String
String(d) == StringIn(d, bestUnit(d, FormatBinaryByte).name)

\* the family a unit verb of Size.Format selects
VerbFamily ==
    ("B" :> FormatBinaryByte) @@ ("b" :> FormatBinaryBit)
    @@ ("M" :> FormatMetricByte) @@ ("m" :> FormatMetricBit)

FormatIn_AlwaysTwo(d, unit, precision) ==
    FormatUnitString(d, unit, IF Len(precision) # 0 THEN precision ELSE <<2>>)

\* Size.Format for a unit verb, once bestUnit has chosen the unit: the
\* given precision if there is one, else none for bytes and bits and 2 for
\* the other units
FormatIn(d, unit, precision) ==
    FormatUnitString(d, unit,
                     IF Len(precision) # 0 THEN precision
                     ELSE IF unit = "B" \/ unit = "b" THEN <<>>
                     ELSE <<2>>)

\* Size.Format: what is written to f for a verb; precision is what
\* f.Precision() reports, <<>> when none was given
Format(d, verb, precision) ==
    IF verb \in DOMAIN VerbFamily
    THEN FormatIn(d, bestUnit(d, VerbFamily[verb]).name, precision)
    ELSE IF verb = "d" THEN Text(FormatInt(d))
    ELSE String(d)

-----------------------------------------------------------------------------
(* Formatting a Speed: src/data/speed.go.  A Speed is a uint64. *)

MaxUint64 == ZSub(Pow2(64), ZOf(1))

\* Speed.Size: the conversion of a uint64 to int64 keeps the bit pattern
SpeedSize(s) == WrapInt64(s)

\* appends "/s" to what a Size formatter wrote
PerSecond(r) == IF r.panic # "" THEN r ELSE Text(r.text \o "/s")

SpeedFormatUnitString_ZeroBare(s, unit, precision) ==
    IF s = ZZero THEN Text("0 " \o unit)
    ELSE PerSecond(FormatUnitString(SpeedSize(s), unit, precision))

\* Speed.FormatUnitString
SpeedFormatUnitString(s, unit, precision) ==
    IF s = ZZero THEN Text("0 " \o unit \o "/s")
    ELSE PerSecond(FormatUnitString(SpeedSize(s), unit, precision))

\* Speed.Format
SpeedFormat(s, verb, precision) == PerSecond(Format(SpeedSize(s), verb, precision))

\* Speed.String
SpeedString(s) == PerSecond(String(SpeedSize(s)))

-----------------------------------------------------------------------------
(* The caller: one call of an operation on inputs drawn from bounded sets. *)
(* call is the pending call with its arguments, ret what it returned.       *)

\* how far around each boundary value the inputs reach
Near == 1

NoRet == [val |-> ZZero, err |-> "pending"]

Offsets == {ZOf(k) : k \in (0 - Near)..Near}

ToLower(c) ==
    IF \E i \in DOMAIN UpperChars : UpperChars[i] = c
    THEN LowerChars[CHOOSE i \in DOMAIN UpperChars : UpperChars[i] = c]
    ELSE c

\* the scales of the table entries that differ from a suffix by case only
ScalesLike(u) ==
    IF u = "" THEN {Byte}
    ELSE {UnitTable[w] : w \in {v \in DOMAIN UnitTable :
                                   MapText(ToLower, v) = MapText(ToLower, u)}}

\* numerals on both sides of the overflow boundaries of scale m
BoundaryNumerals(m) ==
    {ZAdd(ZQuo(MaxInt64, m), k) : k \in Offsets}
    \cup {ZAdd(ZQuo(MinInt64, m), k) : k \in Offsets}

GenericNumerals ==
    {ZOf(-1024), ZOf(-1), ZOf(0), ZOf(1), ZOf(8), ZOf(1000), ZOf(1536)}

InputUnits ==
    DOMAIN UnitTable
    \cup {"", "b", "mb", "gb", "tb", "pb", "eb", "mib", "gib", "tib", "pib",
          "eib", "Eib", "mIb", "kIB", "KIB", "Bi", "x", "bytes"}

\* <<padding around the text, gap between numeral and suffix>>
Layouts == {<<"", "">>, <<"", " ">>, <<" ", " ">>}

SizeText(n, u, lay) == lay[1] \o FormatInt(n) \o lay[2] \o u \o lay[1]

\* texts that are no numeral followed by a suffix
RawSizeTexts ==
    {"", " ", "abc", "kB", "+5", "+5 GB", "1_0", "1 2", "1 B 2", "--5", "5-",
     "1e3", "0x10", "007 Eb", "1.5 kB", "- 5 B"}

ParseSizeCalls ==
    {[op |-> "ParseSize", shape |-> "numeral", s |-> SizeText(c[1], c[2], c[3]),
      n |-> c[1], unit |-> c[2]] :
        c \in UNION {(GenericNumerals \cup UNION {BoundaryNumerals(m) : m \in ScalesLike(u)})
                     \X {u} \X Layouts : u \in InputUnits}}
    \cup {[op |-> "ParseSize", shape |-> "raw", s |-> t, n |-> ZZero, unit |-> ""] :
             t \in RawSizeTexts}

DoParseSize ==
    /\ pc = "call"
    /\ call.op = "ParseSize"
    /\ ret' = ParseSize(call.s)
    /\ pc' = "done"
    /\ UNCHANGED call

InitParseSize == pc = "call" /\ call \in ParseSizeCalls /\ ret = NoRet

SpecParseSize == InitParseSize /\ [][DoParseSize]_vars

-----------------------------------------------------------------------------
(* Calls of bestUnit. *)

Thresholds == {UnitTable[u] : u \in DOMAIN UnitTable} \cup {ZZero}

SizeValues ==
    {ZOf(-1024), ZOf(-1), ZOf(42), ZOf(512), ZOf(1500), ZOf(1536),
     ZMul(ZOf(5), MiB), MaxInt64, MinInt64}
    \cup {ZAdd(t, k) : t \in Thresholds, k \in Offsets}

BestUnitCalls == {[op |-> "bestUnit", d |-> d, u |-> u] : d \in SizeValues, u \in Families}

DoBestUnit ==
    /\ pc = "call"
    /\ call.op = "bestUnit"
    /\ ret' = bestUnit(call.d, call.u)
    /\ pc' = "done"
    /\ UNCHANGED call

InitBestUnit == pc = "call" /\ call \in BestUnitCalls /\ ret = NoRet

SpecBestUnit == InitBestUnit /\ [][DoBestUnit]_vars

-----------------------------------------------------------------------------
(* Calls of NewSpeedE. *)

Amounts ==
    {ZOf(-1024), ZOf(-1), ZOf(0), ZOf(1), ZOf(7), ZOf(1000), MB,
     ZMul(ZOf(500), MB), MaxInt64, MinInt64}
    \cup {ZAdd(ZQuo(MaxInt64, Second), k) : k \in Offsets}

Durations ==
    {ZNeg(Second), ZOf(-1), ZOf(0), ZOf(1), ZOf(2), ZOf(3), ZOf(1000),
     Millisecond, ZMul(ZOf(500), Millisecond), Second, ZMul(ZOf(2), Second),
     Minute, Hour, MaxInt64}

NewSpeedECalls ==
    {[op |-> "NewSpeedE", amount |-> a, dur |-> d] : a \in Amounts, d \in Durations}

DoNewSpeedE ==
    /\ pc = "call"
    /\ call.op = "NewSpeedE"
    /\ ret' = NewSpeedE(call.amount, call.dur)
    /\ pc' = "done"
    /\ UNCHANGED call

InitNewSpeedE == pc = "call" /\ call \in NewSpeedECalls /\ ret = NoRet

SpecNewSpeedE == InitNewSpeedE /\ [][DoNewSpeedE]_vars

-----------------------------------------------------------------------------
(* Calls of ParseSpeed. *)

SpeedSizeTexts ==
    {"100B", "1KB", "1B", "2MB", "1 KB", "-1KB", "XB", "", "5 Mb", "1pib",
     "60B", "0B", "7", "-0B", "1kb", "3600 kiB"}
    \cup {FormatInt(ZAdd(ZQuo(MaxInt64, Second), k)) \o "B" : k \in Offsets}

Separators == {"/", "p", " / ", " p "}

DurationUnits == {"ns", "µs", "ms", "s", "m", "h", "day", "", "S", "sec"}

\* texts without a separator
RawSpeedTexts == {"", " ", "1KBs", "100", "KB", "1 MB s"}

ParseSpeedCalls ==
    {[op |-> "ParseSpeed", shape |-> "split", s |-> c[4] \o c[1] \o c[2] \o c[3] \o c[4],
      size |-> c[1], sep |-> c[2], dur |-> c[3]] :
        c \in SpeedSizeTexts \X Separators \X DurationUnits \X {"", " "}}
    \cup {[op |-> "ParseSpeed", shape |-> "raw", s |-> t, size |-> "", sep |-> "",
           dur |-> ""] : t \in RawSpeedTexts}

DoParseSpeed ==
    /\ pc = "call"
    /\ call.op = "ParseSpeed"
    /\ ret' = ParseSpeed(call.s)
    /\ pc' = "done"
    /\ UNCHANGED call

InitParseSpeed == pc = "call" /\ call \in ParseSpeedCalls /\ ret = NoRet

SpecParseSpeed == InitParseSpeed /\ [][DoParseSpeed]_vars

-----------------------------------------------------------------------------
(* Calls of Size.FormatUnitString whose text is handed back to ParseSize. *)

\* the largest precision a call asks for
MaxPrec == 2

\* the variadic precision argument and what fmt.State.Precision reports:
\* absent, or one value
Precisions == {<<>>} \cup {<<p>> : p \in 0..MaxPrec}

RoundTripUnits == {"B", "b", "kB", "KiB"}

FormatUnitStringCalls ==
    {[op |-> "FormatUnitString", d |-> d, unit |-> u, precision |-> p] :
        d \in SizeValues, u \in RoundTripUnits, p \in Precisions}

DoFormatUnitString ==
    /\ pc = "call"
    /\ call.op = "FormatUnitString"
    /\ ret' = FormatUnitString(call.d, call.unit, call.precision)
    /\ pc' = "formatted"
    /\ UNCHANGED call

\* the text FormatUnitString returned is parsed
DoParseBack ==
    /\ pc = "formatted"
    /\ ret.panic = ""
    /\ ret' = ParseSize(ret.text)
    /\ pc' = "parsed"
    /\ UNCHANGED call

InitRoundTrip == pc = "call" /\ call \in FormatUnitStringCalls /\ ret = NoRet

SpecRoundTrip == InitRoundTrip /\ [][DoFormatUnitString \/ DoParseBack]_vars

-----------------------------------------------------------------------------
(* Calls of Size.FormatUnitString with the unit names its documentation *)
(* lists.                                                                *)

\* the names under "Supported units include" in FormatUnitString's comment
DocumentedUnits ==
    {"b", "B",
     "kB", "KB", "MB", "GB", "TB", "PB", "EB",
     "kiB", "KiB", "MiB", "GiB", "TiB", "PiB", "EiB",
     "kb", "Kb", "Mb", "Gb", "Tb", "Pb", "Eb",
     "kib", "Kib", "Mib", "Gib", "Tib", "Pib", "Eib"}

DocumentedUnitCalls ==
    {[op |-> "FormatUnitString", d |-> d, unit |-> u, precision |-> p] :
        d \in {ZOf(-1536), ZOf(-1), ZOf(0), ZOf(1), ZOf(1536), MaxInt64, MinInt64},
        u \in DocumentedUnits, p \in Precisions}

InitFormatUnitString == pc = "call" /\ call \in DocumentedUnitCalls /\ ret = NoRet

SpecFormatUnitString == InitFormatUnitString /\ [][DoFormatUnitString]_vars

-----------------------------------------------------------------------------
(* Calls of String and Format on a Size and on a Speed. *)

FormatSizes ==
    {ZOf(-1500), ZOf(-1024), ZOf(-1), ZOf(0), ZOf(1), ZOf(42), ZOf(1500),
     ZOf(1536), ZMul(ZOf(5), MiB), ZAdd(ZMul(ZOf(2), GB), ZMul(ZOf(500), MB)),
     MaxInt64, MinInt64}
    \cup {ZAdd(t, k) : t \in {Kib, Kb, KB, KiB, Pib, Eb, EB, EiB}, k \in Offsets}

\* a Speed is a uint64
Speeds ==
    {ZOf(0), ZOf(1), ZOf(1023), ZOf(1024), ZOf(1500), ZMul(ZOf(5), MiB),
     MaxInt64, ZAdd(MaxInt64, ZOf(1)), ZSub(MaxUint64, ZOf(1024)), MaxUint64}

\* the unit verbs, %d, and verbs that fall to the default case
Verbs == {"B", "b", "M", "m", "d", "s", "v", "x"}

StringCalls ==
    {[op |-> "String", d |-> d, verb |-> "", precision |-> <<>>] :
        d \in SizeValues \cup FormatSizes}

FormatCalls ==
    {[op |-> "Format", d |-> d, verb |-> v, precision |-> p] :
        d \in FormatSizes, v \in Verbs, p \in Precisions}

SpeedStringCalls ==
    {[op |-> "SpeedString", d |-> s, verb |-> "", precision |-> <<>>] : s \in Speeds}

SpeedFormatCalls ==
    {[op |-> "SpeedFormat", d |-> s, verb |-> v, precision |-> p] :
        s \in Speeds, v \in Verbs, p \in Precisions}

DoString ==
    /\ pc = "call"
    /\ call.op = "String"
    /\ ret' = String(call.d)
    /\ pc' = "done"
    /\ UNCHANGED call

DoFormat ==
    /\ pc = "call"
    /\ call.op = "Format"
    /\ ret' = Format(call.d, call.verb, call.precision)
    /\ pc' = "done"
    /\ UNCHANGED call

DoSpeedString ==
    /\ pc = "call"
    /\ call.op = "SpeedString"
    /\ ret' = SpeedString(call.d)
    /\ pc' = "done"
    /\ UNCHANGED call

DoSpeedFormat ==
    /\ pc = "call"
    /\ call.op = "SpeedFormat"
    /\ ret' = SpeedFormat(call.d, call.verb, call.precision)
    /\ pc' = "done"
    /\ UNCHANGED call

InitFormat ==
    /\ pc = "call"
    /\ call \in StringCalls \cup FormatCalls \cup SpeedStringCalls \cup SpeedFormatCalls
    /\ ret = NoRet

NextFormat == DoString \/ DoFormat \/ DoSpeedString \/ DoSpeedFormat

SpecFormat == InitFormat /\ [][NextFormat]_vars

-----------------------------------------------------------------------------
(* Calls of the three formatting methods of a Speed. *)

SpeedFormatUnitStringCalls ==
    {[op |-> "SpeedFormatUnitString", d |-> s, unit |-> u, precision |-> p] :
        s \in Speeds, u \in DocumentedUnits \cup {"", "XB"}, p \in Precisions}

DoSpeedFormatUnitString ==
    /\ pc = "call"
    /\ call.op = "SpeedFormatUnitString"
    /\ ret' = SpeedFormatUnitString(call.d, call.unit, call.precision)
    /\ pc' = "done"
    /\ UNCHANGED call

InitSpeedFormat ==
    /\ pc = "call"
    /\ call \in SpeedStringCalls \cup SpeedFormatCalls \cup SpeedFormatUnitStringCalls
    /\ ret = NoRet

SpecSpeedFormat ==
    InitSpeedFormat /\ [][DoSpeedString \/ DoSpeedFormat \/ DoSpeedFormatUnitString]_vars

-----------------------------------------------------------------------------
(* Properties of ParseSize. *)

ParseSizeDone == pc = "done" /\ call.op = "ParseSize"

NumeralDone == ParseSizeDone /\ call.shape = "numeral" /\ InInt64(call.n)

\* what a numeral n with a scale m must parse to
Scaled(n, m) ==
    IF InInt64(ZMul(n, m)) THEN [val |-> ZMul(n, m), err |-> ""]
    ELSE [val |-> ZZero, err |-> "size overflows int64"]

\* C1: for every int64 numeral n and every suffix of the Unit Table with
\* scale m, ParseSize returns n*m with no error when n*m is in the int64
\* range and an overflow error with result 0 otherwise.
C1_ScaledOrOverflow ==
    (NumeralDone /\ call.unit \in DOMAIN UnitTable)
        => ret = Scaled(call.n, UnitTable[call.unit])

\* C2: the spellings "kb" and "Kb" both parse as the metric kilobit: n
\* followed by either returns n*Kb (n*125) for every numeral in range.
C2_KilobitSpellings ==
    (NumeralDone /\ call.unit \in {"kb", "Kb"} /\ InInt64(ZMul(call.n, ZOf(125))))
        => ret = [val |-> ZMul(call.n, ZOf(125)), err |-> ""]

\* the table key each all-lower-case input suffix is to be looked up under
C3_LowerKey ==
    ("b" :> "B") @@ ("kb" :> "KB") @@ ("mb" :> "MB") @@ ("gb" :> "GB")
    @@ ("tb" :> "TB") @@ ("pb" :> "PB") @@ ("eb" :> "EB")
    @@ ("kib" :> "KiB") @@ ("mib" :> "MiB") @@ ("gib" :> "GiB")
    @@ ("tib" :> "TiB") @@ ("pib" :> "PiB") @@ ("eib" :> "EiB")
    @@ ("x" :> "X") @@ ("bytes" :> "BYTES")

C3_Key(u) ==
    IF u = "" THEN "B"
    ELSE IF u \in DOMAIN C3_LowerKey THEN C3_LowerKey[u]
    ELSE u

\* C3: an all-lower-case suffix is looked up with every letter but 'i'
\* upper-cased (kib, mib, gib, tib, pib, eib reach KiB .. EiB), a mixed-case
\* suffix is looked up verbatim, and a suffix missing from the Unit Table
\* after that gives an invalid-unit error with result 0.
C3_SuffixResolution ==
    NumeralDone =>
        IF C3_Key(call.unit) \in DOMAIN UnitTable
        THEN ret = Scaled(call.n, UnitTable[C3_Key(call.unit)])
        ELSE ret = [val |-> ZZero, err |-> "invalid input unit"]

C3_Witness ==
    /\ NumeralDone
    /\ call.unit = "gib"
    /\ call.n = ZOf(8)
    /\ ret = [val |-> ZMul(ZOf(8), GiB), err |-> ""]

-----------------------------------------------------------------------------
(* Properties of bestUnit. *)

BestUnitDone == pc = "done" /\ call.op = "bestUnit"

\* the largest index of the family's list whose threshold is <= d, or the
\* base unit's index when there is none
C5_Largest(d, u) ==
    LET qual == {i \in 1..Len(UnitList(u)) : ZLe(UnitList(u)[i].value, d)}
    IN  IF qual = {} THEN 1 ELSE CHOOSE i \in qual : \A j \in qual : j <= i

\* C5: bestUnit returns the name of the largest unit of the family whose
\* threshold is <= d, and the base unit when d is below every threshold
\* (zero and negative d included); 1023 gives "B" and 1024 gives "kiB" in the
\* binary-byte family.
C5_BestUnitLargest ==
    BestUnitDone =>
        /\ ret.panic = ""
        /\ ret.name = UnitList(call.u)[C5_Largest(call.d, call.u)].name
        /\ (call.u = FormatBinaryByte /\ call.d = ZOf(1023) => ret.name = "B")
        /\ (call.u = FormatBinaryByte /\ call.d = ZOf(1024) => ret.name = "kiB")

C5_Witness ==
    /\ BestUnitDone
    /\ call.u = FormatBinaryByte
    /\ call.d = ZOf(1024)
    /\ ret.name = "kiB"

\* the threshold of a unit name in a family
ThresholdOf(u, name) ==
    UnitList(u)[CHOOSE i \in 1..Len(UnitList(u)) : UnitList(u)[i].name = name].value

\* C6: bestUnit is monotonic within a family: for 0 <= a <= d the threshold
\* of the unit chosen for a is <= the threshold of the unit chosen for d.
C6_BestUnitMonotonic ==
    (BestUnitDone /\ ZGe(call.d, ZZero)) =>
        \A a \in SizeValues :
            (ZGe(a, ZZero) /\ ZLe(a, call.d))
                => ZLe(ThresholdOf(call.u, bestUnit(a, call.u).name),
                       ThresholdOf(call.u, ret.name))

C6_Witness ==
    /\ BestUnitDone
    /\ call.u = FormatMetricBit
    /\ call.d = ZAdd(Gb, ZOf(1))
    /\ ret.name = "Gb"
    /\ bestUnit(Mb, call.u).name = "Mb"

-----------------------------------------------------------------------------
(* Properties of NewSpeedE and ParseSpeed. *)

NewSpeedEDone == pc = "done" /\ call.op = "NewSpeedE"

\* C7: NewSpeedE returns an error for every negative amount, whatever the
\* non-negative duration, a zero duration included.
C7_NegativeAmountIsError ==
    (NewSpeedEDone /\ ZLt(call.amount, ZZero) /\ ZGe(call.dur, ZZero))
        => ret.err # ""

\* C8: for amount >= 0 and duration > 0, NewSpeedE returns an overflow error
\* when amount * 1e9 exceeds MaxInt64 and otherwise exactly the truncated
\* quotient (amount * 1e9) / duration; for duration 0 and amount >= 0 it
\* returns 0 with no error.
C8_NoWrappedSpeed ==
    NewSpeedEDone =>
        /\ (ZGe(call.amount, ZZero) /\ ZGt(call.dur, ZZero)) =>
              IF ZGt(ZMul(call.amount, Second), MaxInt64)
              THEN ret = [val |-> ZZero, err |-> "speed overflows int64"]
              ELSE /\ ret.err = ""
                   /\ ZGe(ret.val, ZZero)
                   /\ ZLe(ZMul(ret.val, call.dur), ZMul(call.amount, Second))
                   /\ ZGt(ZMul(ZAdd(ret.val, ZOf(1)), call.dur),
                          ZMul(call.amount, Second))
        /\ (ZGe(call.amount, ZZero) /\ call.dur = ZZero) =>
              ret = [val |-> ZZero, err |-> ""]

C8_Witness ==
    /\ NewSpeedEDone
    /\ call.amount = ZAdd(ZQuo(MaxInt64, Second), ZOf(1))
    /\ call.dur = ZOf(3)
    /\ ret = [val |-> ZZero, err |-> "speed overflows int64"]

\* C16: NewSpeedE rejects only what is not representable: for every amount
\* >= 0 and duration > 0 whose true truncated quotient amount * 1e9 /
\* duration is in the int64 range, it returns that quotient with no error.
C16_RejectsOnlyUnrepresentable ==
    (/\ NewSpeedEDone
     /\ ZGe(call.amount, ZZero)
     /\ ZGt(call.dur, ZZero)
     /\ InInt64(ZQuo(ZMul(call.amount, Second), call.dur)))
        => ret = [val |-> ZQuo(ZMul(call.amount, Second), call.dur), err |-> ""]

ParseSpeedDone == pc = "done" /\ call.op = "ParseSpeed"

\* the duration each time-unit abbreviation denotes
C9_UnitDuration ==
    ("ns" :> Nanosecond) @@ ("µs" :> Microsecond) @@ ("ms" :> Millisecond)
    @@ ("s" :> Second) @@ ("m" :> Minute) @@ ("h" :> Hour)

\* C9: ParseSpeed splits at the last '/' or 'p'; with a duration unit among
\* ns, µs, ms, s, m, h and a size portion that parses, the result is
\* NewSpeedE(ParseSize(size portion), duration of that unit); a missing
\* separator, an unknown duration unit, an unparsable size or a negative
\* size returns an error.
C9_ParseSpeedSplits ==
    ParseSpeedDone =>
        IF call.shape = "raw" THEN ret.err # ""
        ELSE IF call.dur \notin DOMAIN C9_UnitDuration THEN ret.err # ""
        ELSE IF ParseSize(call.size).err # "" THEN ret.err # ""
        ELSE /\ ret = NewSpeedE(ParseSize(call.size).val, C9_UnitDuration[call.dur])
             /\ (ZLt(ParseSize(call.size).val, ZZero) => ret.err # "")

-----------------------------------------------------------------------------
(* Properties of formatting. *)

\* C4: the text FormatUnitString("B", 0) writes for a Size n parses back,
\* without an error, to exactly n; zero, negative values and the smallest
\* int64 included.
C4_RoundTripBytes ==
    (/\ pc = "parsed"
     /\ call.unit = "B"
     /\ OptionalValue(0, call.precision) = 0)
        => ret = [val |-> call.d, err |-> ""]

\* the smallest int64 went through both steps
C4_Witness ==
    /\ pc = "parsed"
    /\ call.unit = "B"
    /\ call.precision = <<0>>
    /\ call.d = MinInt64
    /\ ret = [val |-> MinInt64, err |-> ""]

FormatDone ==
    pc = "done" /\ call.op \in {"String", "Format", "SpeedString", "SpeedFormat"}

\* C10: String and Format, of a Size and of a Speed, with any verb and any
\* precision, end without a panic and with a text.
C10_FormattingNeverFails ==
    FormatDone => ret.panic = "" /\ ret.text # ""

\* the largest Speed was formatted with a unit verb
C10_Witness ==
    /\ FormatDone
    /\ call.op = "SpeedFormat"
    /\ call.d = MaxUint64
    /\ call.verb = "m"
    /\ call.precision = <<>>
    /\ ret = Text("-8 b/s")

\* the unit of the binary-byte family whose threshold is the largest one
\* <= d
C12_Unit(d) == UnitList(FormatBinaryByte)[C5_Largest(d, FormatBinaryByte)]

\* the text before the blank and the unit name
NumberPart(t, unit) == SubSeq(t, 1, Len(t) - Len(unit) - 1)

EndsWithUnit(t, unit) ==
    /\ Len(t) > Len(unit) + 1
    /\ SubSeq(t, Len(t) - Len(unit), Len(t)) = " " \o unit

Unsigned(num) == IF Char(num, 1) = "-" THEN SubSeq(num, 2, Len(num)) ELSE num

\* digits, a decimal point and exactly k more digits
HasDecimals(num, k) ==
    /\ Len(Unsigned(num)) >= k + 2
    /\ Char(Unsigned(num), Len(Unsigned(num)) - k) = "."
    /\ all(SubSeq(Unsigned(num), 1, Len(Unsigned(num)) - k - 1), IsDigit)
    /\ all(SubSeq(Unsigned(num), Len(Unsigned(num)) - k + 1, Len(Unsigned(num))), IsDigit)

\* the value of a text with k decimals, in units of 10^-k
Scaled10(num, k) ==
    Z(Char(num, 1) = "-",
      DigitsMag(SubSeq(Unsigned(num), 1, Len(Unsigned(num)) - k - 1)
                \o SubSeq(Unsigned(num), Len(Unsigned(num)) - k + 1,
                          Len(Unsigned(num)))))

\* num, a text with two decimals, is d/u rounded to the nearest hundredth
NearestHundredth(num, d, u) ==
    ZLe(ZMul(ZOf(2), ZAbs(ZSub(ZMul(ZOf(100), d), ZMul(Scaled10(num, 2), u)))), u)

\* C12: String() takes its unit from the binary-byte family, the largest
\* whose threshold is <= d, and writes the value with exactly 2 fractional
\* digits, except that with the base unit it writes a plain integer with no
\* decimal point: 0 gives "0 B", 42 gives "42 B", 1536 gives "1.50 kiB" and
\* 5 MiB gives "5.00 MiB".
C12_StringRendering ==
    (FormatDone /\ call.op = "String") =>
        /\ ret.panic = ""
        /\ IF C12_Unit(call.d).name = "B"
           THEN ret.text = FormatInt(call.d) \o " B"
           ELSE /\ EndsWithUnit(ret.text, C12_Unit(call.d).name)
                /\ HasDecimals(NumberPart(ret.text, C12_Unit(call.d).name), 2)
                /\ NearestHundredth(NumberPart(ret.text, C12_Unit(call.d).name),
                                    call.d, C12_Unit(call.d).value)
        /\ (call.d = ZOf(0) => ret.text = "0 B")
        /\ (call.d = ZOf(42) => ret.text = "42 B")
        /\ (call.d = ZOf(1536) => ret.text = "1.50 kiB")
        /\ (call.d = ZMul(ZOf(5), MiB) => ret.text = "5.00 MiB")

C12_Witness ==
    /\ FormatDone
    /\ call.op = "String"
    /\ call.d = ZOf(1536)
    /\ ret = Text("1.50 kiB")

\* C13: the Size 2*GB + 500*MB (2,500,000,000 bytes), printed with String()
\* or with the verb s, reads "2.50 GB".
C13_DefaultStringExample ==
    (/\ FormatDone
     /\ call.op = "String" \/ (call.op = "Format" /\ call.verb = "s")
     /\ call.d = ZAdd(ZMul(ZOf(2), GB), ZMul(ZOf(500), MB)))
        => ret = Text("2.50 GB")

\* the family each unit verb stands for
C14_Family ==
    ("B" :> FormatBinaryByte) @@ ("M" :> FormatMetricByte)
    @@ ("b" :> FormatBinaryBit) @@ ("m" :> FormatMetricBit)

\* the unit of verb v's family with the largest threshold <= d
C14_Unit(d, v) == UnitList(C14_Family[v])[C5_Largest(d, C14_Family[v])].name

\* the precision a unit verb formats with
C14_Precision(unit, precision) ==
    IF precision # <<>> THEN precision[1]
    ELSE IF unit \in {"B", "b"} THEN 0
    ELSE 2

\* what Format is to write
C14_Expected(d, v, precision) ==
    IF v \in {"B", "M", "b", "m"}
    THEN FormatUnitString(d, C14_Unit(d, v), <<C14_Precision(C14_Unit(d, v), precision)>>)
    ELSE IF v = "d" THEN Text(FormatInt(d))
    ELSE String(d)

\* C14: Format with a family verb (B binary byte, M metric byte, b binary
\* bit, m metric bit) writes FormatUnitString of that family's best unit with
\* the requested precision if one is given, else with precision 0 for a base
\* unit (B or b) and 2 otherwise; the verb d writes the underlying integer
\* with no unit suffix; every other verb writes exactly String(), whatever
\* the requested precision.
C14_VerbDispatch ==
    (FormatDone /\ call.op = "Format") =>
        /\ ret = C14_Expected(call.d, call.verb, call.precision)
        /\ (call.verb = "d" => all(Unsigned(ret.text), IsDigit))
        /\ (call.d = ZOf(1536) /\ call.verb = "B" /\ call.precision = <<>>
               => ret.text = "1.50 kiB")
        /\ (call.d = ZOf(1500) /\ call.verb = "M" /\ call.precision = <<>>
               => ret.text = "1.50 kB")
        /\ (call.d = ZOf(1024) /\ call.verb = "b" /\ call.precision = <<>>
               => ret.text = "8.00 kib")
        /\ (call.d = ZOf(1000) /\ call.verb = "m" /\ call.precision = <<>>
               => ret.text = "8.00 kb")
        /\ (call.d = ZOf(42) /\ call.verb = "B" /\ call.precision = <<>>
               => ret.text = "42 B")

C14_Witness ==
    /\ FormatDone
    /\ call.op = "Format"
    /\ call.d = ZOf(1536)
    /\ call.verb = "B"
    /\ call.precision = <<1>>
    /\ ret = Text("1.5 kiB")

-----------------------------------------------------------------------------
(* Properties of FormatUnitString. *)

FormatUnitStringDone == pc = "formatted" /\ call.op = "FormatUnitString"

\* C11: for every unit name listed in FormatUnitString's documentation and
\* every Size, zero or not, FormatUnitString returns a text and does not
\* panic.
C11_DocumentedUnitsFormat ==
    (FormatUnitStringDone /\ call.unit \in DocumentedUnits)
        => ret.panic = "" /\ ret.text # ""

-----------------------------------------------------------------------------
(* Properties of formatting a Speed. *)

SpeedFormatDone ==
    pc = "done" /\ call.op \in {"SpeedString", "SpeedFormat", "SpeedFormatUnitString"}

\* Size(s): the int64 with the bit pattern of the uint64 s
C15_Size(s) == IF ZLe(s, MaxInt64) THEN s ELSE ZSub(s, Pow2(64))

\* what the Size method of the same name does with the same arguments
C15_OfSize(c) ==
    IF c.op = "SpeedString" THEN String(C15_Size(c.d))
    ELSE IF c.op = "SpeedFormat" THEN Format(C15_Size(c.d), c.verb, c.precision)
    ELSE FormatUnitString(C15_Size(c.d), c.unit, c.precision)

\* r is what the Size method wrote followed by "/s", and panics when the
\* Size method does
C15_Suffixed(r, size) ==
    /\ r.panic = size.panic
    /\ size.panic = "" => r.text = size.text \o "/s"

====
